---- MODULE Spec2Model ----
(***************************************************************************)
(* Model of src/ip/ip-cf-auto.py: the source normaliser                    *)
(* (parse_text_to_items and the merge in main), the reachability stage,    *)
(* the throughput stage, the ranking with its fallback, the geolocation    *)
(* annotation and the two output files.                                    *)
(*                                                                         *)
(* Text is a sequence of one-character strings, so that the regular        *)
(* expressions, splitlines(), strip() and split() act on characters as     *)
(* they do in Python.                                                      *)
(***************************************************************************)
EXTENDS Integers, Sequences, FiniteSets, TLC

(***************************************************************************)
(* Bounds of the model (not program constants).                            *)
(***************************************************************************)
\* longest primary blob of SpecParse, counted in pieces of Pieces
MaxTlsPieces == 3
\* longest secondary blob of SpecParse, counted in pieces of Pieces
MaxDiyPieces == 2
\* longest blob of SpecDoubled, counted in pieces of Pieces
MaxBlobPieces == 4

(***************************************************************************)
(* Characters and small texts.                                             *)
(***************************************************************************)
Digits == {"0", "1", "2", "3", "4", "5", "6", "7", "8", "9"}

NL == "\n"

IsDigit(c) == c \in Digits

\* \b of the re module: a word character is a letter, a digit or "_"; the
\* texts of the model hold digits, ".", ":", "#", " " and line feeds only
IsWordChar(c) == c \in Digits

IsSpace(c) == c \in {" ", NL}

IPA == <<"1", ".", "1", ".", "1", ".", "1">>
IPB == <<"2", ".", "2", ".", "2", ".", "2">>
IPC == <<"3", ".", "3", ".", "3", ".", "3">>
PORT8 == <<":", "8">>
DEFAULT_PORT == <<"4", "4", "3">>

Pieces == {IPA, IPB, PORT8, <<NL>>, <<"#">>, <<" ">>}

RECURSIVE Concat(_)
Concat(ss) == IF ss = <<>> THEN <<>> ELSE Head(ss) \o Concat(Tail(ss))

BlobsUpTo(n) == {Concat(ps) : ps \in UNION {[1..k -> Pieces] : k \in 0..n}}

(***************************************************************************)
(* str.splitlines, str.strip, str.startswith, " #" in line, str.split      *)
(***************************************************************************)
RECURSIVE SplitLinesFrom(_, _, _)
SplitLinesFrom(s, i, cur) ==
    IF i > Len(s) THEN (IF cur = <<>> THEN <<>> ELSE <<cur>>)
    ELSE IF s[i] = NL THEN <<cur>> \o SplitLinesFrom(s, i + 1, <<>>)
    ELSE SplitLinesFrom(s, i + 1, Append(cur, s[i]))

\* text.splitlines(): a trailing line feed opens no further line
splitlines(s) == SplitLinesFrom(s, 1, <<>>)

RECURSIVE LStrip(_)
LStrip(s) == IF s # <<>> /\ IsSpace(Head(s)) THEN LStrip(Tail(s)) ELSE s

RECURSIVE RStrip(_)
RStrip(s) ==
    IF s # <<>> /\ IsSpace(s[Len(s)]) THEN RStrip(SubSeq(s, 1, Len(s) - 1)) ELSE s

strip(s) == RStrip(LStrip(s))

\* the first index at which " #" starts, 0 if " #" is not in the line
FindSpaceHash(line) ==
    LET hits == {i \in 1..(Len(line) - 1) : line[i] = " " /\ line[i + 1] = "#"}
    IN IF hits = {} THEN 0 ELSE CHOOSE i \in hits : \A j \in hits : i <= j

\* mutant: the text after " #" is kept
CleanLineUncut(raw) ==
    LET line == strip(raw)
    IN IF line = <<>> THEN <<>>
       ELSE IF Head(line) = "#" THEN <<>>
       ELSE line

\* lines 85-93: the loop body for one line; <<>> stands for a skipped line
CleanLine(raw) ==
    LET line == strip(raw)
        k == FindSpaceHash(line)
    IN IF line = <<>> THEN <<>>
       ELSE IF Head(line) = "#" THEN <<>>
       ELSE IF k # 0 THEN strip(SubSeq(line, 1, k - 1))
       ELSE line

RECURSIVE CleanLinesOf(_)
CleanLinesOf(ls) ==
    IF ls = <<>> THEN <<>>
    ELSE LET raw == Head(ls)
             line == strip(raw)
             skipped == line = <<>> \/ Head(line) = "#"
         IN (IF skipped THEN <<>> ELSE <<CleanLine(raw)>>) \o CleanLinesOf(Tail(ls))

\* mutant: the cleaned lines are joined without a separator
JoinLinesNoSeparator(ls) == Concat(ls)

RECURSIVE JoinLines(_)
JoinLines(ls) ==
    IF ls = <<>> THEN <<>>
    ELSE IF Len(ls) = 1 THEN Head(ls)
    ELSE Head(ls) \o <<NL>> \o JoinLines(Tail(ls))

\* lines 84-95: the cleaned text the two patterns are applied to
CleanText(text) == JoinLines(CleanLinesOf(splitlines(text)))

(***************************************************************************)
(* FULL_PATTERN and IP_PATTERN                                             *)
(***************************************************************************)
DigitAt(s, i) == i >= 1 /\ i <= Len(s) /\ IsDigit(s[i])

\* \b at the gap before position i (1 .. Len(s)+1)
WordBoundary(s, i) ==
    LET before == i > 1 /\ i - 1 <= Len(s) /\ IsWordChar(s[i - 1])
        after == i <= Len(s) /\ IsWordChar(s[i])
    IN before # after

\* what must follow the fourth octet: ":" and a digit (FULL_PATTERN) or \b
TailOk(s, e, full) ==
    IF full THEN e <= Len(s) /\ s[e] = ":" /\ DigitAt(s, e + 1)
    ELSE WordBoundary(s, e)

\* \d{1,3}(?:\.\d{1,3}){k-1} from position i, greedy with backtracking: the
\* position after the match the engine finds first, 0 if there is none
RECURSIVE MatchOctets(_, _, _, _)
MatchOctets(s, i, k, full) ==
    LET Try(n) ==
            IF \A j \in 0..(n - 1) : DigitAt(s, i + j)
            THEN IF k = 1
                 THEN (IF TailOk(s, i + n, full) THEN i + n ELSE 0)
                 ELSE (IF i + n <= Len(s) /\ s[i + n] = "."
                       THEN MatchOctets(s, i + n + 1, k - 1, full)
                       ELSE 0)
            ELSE 0
    IN IF Try(3) # 0 THEN Try(3)
       ELSE IF Try(2) # 0 THEN Try(2)
       ELSE Try(1)

\* the end of the greedy \d+ that starts at i
RECURSIVE DigitsEnd(_, _)
DigitsEnd(s, i) == IF DigitAt(s, i) THEN DigitsEnd(s, i + 1) ELSE i

\* FULL_PATTERN.findall(text) from position i: <<ip, port>> pairs in text order
RECURSIVE FullFindAll(_, _)
FullFindAll(s, i) ==
    IF i > Len(s) THEN <<>>
    ELSE LET e == MatchOctets(s, i, 4, TRUE)
         IN IF e = 0 THEN FullFindAll(s, i + 1)
            ELSE LET pe == DigitsEnd(s, e + 1)
                 IN <<[ip |-> SubSeq(s, i, e - 1), port |-> SubSeq(s, e + 1, pe - 1)]>>
                    \o FullFindAll(s, pe)

\* IP_PATTERN.findall(text) from position i
RECURSIVE IpFindAll(_, _)
IpFindAll(s, i) ==
    IF i > Len(s) THEN <<>>
    ELSE LET e == IF WordBoundary(s, i) THEN MatchOctets(s, i, 4, FALSE) ELSE 0
         IN IF e = 0 THEN IpFindAll(s, i + 1)
            ELSE <<SubSeq(s, i, e - 1)>> \o IpFindAll(s, e)

SeenIps(items) == {items[j].ip : j \in 1..Len(items)}

\* lines 99-102: keep the first port seen for each address
RECURSIVE AddFull(_, _)
AddFull(items, found) ==
    IF found = <<>> THEN items
    ELSE AddFull(IF Head(found).ip \in SeenIps(items) THEN items
                 ELSE Append(items, Head(found)),
                 Tail(found))

\* lines 104-107: bare addresses not seen so far get port "443"
RECURSIVE AddBare(_, _)
AddBare(items, found) ==
    IF found = <<>> THEN items
    ELSE AddBare(IF Head(found) \in SeenIps(items) THEN items
                 ELSE Append(items, [ip |-> Head(found), port |-> DEFAULT_PORT]),
                 Tail(found))

\* mutant: the bare addresses are taken before the addresses with a port
parse_text_bare_first(text) ==
    LET cleaned == CleanText(text)
    IN AddFull(AddBare(<<>>, IpFindAll(cleaned, 1)), FullFindAll(cleaned, 1))

parse_text_to_items(text) ==
    LET cleaned == CleanText(text)
    IN AddBare(AddFull(<<>>, FullFindAll(cleaned, 1)), IpFindAll(cleaned, 1))


\* lines 352-376: the DIY URL is tried first, the local file only when the URL
\* gave no text
parse_diy_source(url_text, file_text) ==
    IF url_text # <<>> THEN parse_text_to_items(url_text)
    ELSE IF file_text # <<>> THEN parse_text_to_items(file_text)
    ELSE <<>>

\* lines 341-350
parse_tls_file(text) == IF text = <<>> THEN <<>> ELSE parse_text_to_items(text)

(***************************************************************************)
(* Program constants.  MAX_OUTPUT_NODES (15 in the source) and the         *)
(* shortlist size (30 in the source) are scaled down, keeping shortlist >  *)
(* output, so that both truncations happen with three candidates; every    *)
(* property below is stated in terms of the names, not of the values.      *)
(***************************************************************************)
MAX_WORKERS == 15
MAX_WORKERS_SPEEDTEST == 3
RETRIES == 2
MAX_OUTPUT_NODES == 1
SHORTLIST_SIZE == 2
PING_COUNT == 4
QUICK_PING_COUNT == 2
SPEEDTEST_COUNT == 2
MIN_DOWNLOAD_SPEED == 4
MAX_LATENCY == 300
MAX_PACKET_LOSS == 1
UNREACHABLE_LATENCY == 9999
FULL_LOSS == 100

(***************************************************************************)
(* str.isdigit, int(), str() on port strings                               *)
(***************************************************************************)
isdigit(p) == p # <<>> /\ \A i \in 1..Len(p) : IsDigit(p[i])

DigitValue(c) ==
    CASE c = "0" -> 0 [] c = "1" -> 1 [] c = "2" -> 2 [] c = "3" -> 3 [] c = "4" -> 4
      [] c = "5" -> 5 [] c = "6" -> 6 [] c = "7" -> 7 [] c = "8" -> 8 [] c = "9" -> 9

DigitChar(n) ==
    CASE n = 0 -> "0" [] n = 1 -> "1" [] n = 2 -> "2" [] n = 3 -> "3" [] n = 4 -> "4"
      [] n = 5 -> "5" [] n = 6 -> "6" [] n = 7 -> "7" [] n = 8 -> "8" [] n = 9 -> "9"

RECURSIVE int(_)
int(p) == IF p = <<>> THEN 0 ELSE 10 * int(SubSeq(p, 1, Len(p) - 1)) + DigitValue(p[Len(p)])

RECURSIVE str(_)
str(n) == IF n < 10 THEN <<DigitChar(n)>> ELSE Append(str(n \div 10), DigitChar(n % 10))

(***************************************************************************)
(* The merge of main(), lines 392-404.  by_ip is a dict: a sequence of     *)
(* records in insertion order with at most one record per address.         *)
(***************************************************************************)
DictIndex(d, ip) ==
    LET hits == {i \in 1..Len(d) : d[i].ip = ip}
    IN IF hits = {} THEN 0 ELSE CHOOSE i \in hits : TRUE

\* line 395: by_ip[ip] = {...}; an existing key keeps its place
DictSet(d, it) ==
    LET i == DictIndex(d, it.ip)
    IN IF i = 0 THEN Append(d, it) ELSE [d EXCEPT ![i] = it]

RECURSIVE InsertTls(_, _)
InsertTls(d, items) ==
    IF items = <<>> THEN d ELSE InsertTls(DictSet(d, Head(items)), Tail(items))

\* line 403: the test that lets a DIY port replace the port already stored
PortOverrides(port) == port # <<>> /\ isdigit(port)

\* lines 397-404
RECURSIVE MergeDiy(_, _)
MergeDiy(d, items) ==
    IF items = <<>> THEN d
    ELSE LET it == Head(items)
             i == DictIndex(d, it.ip)
             d2 == IF i = 0 THEN Append(d, it)
                   ELSE IF PortOverrides(it.port) THEN [d EXCEPT ![i].port = it.port]
                   ELSE d
         IN MergeDiy(d2, Tail(items))

Merge(tls, diy) == MergeDiy(InsertTls(<<>>, tls), diy)

\* line 411
IpPortList(d) == [i \in 1..Len(d) |-> [ip |-> d[i].ip, port |-> int(d[i].port)]]


(***************************************************************************)
(* list.sort(key=...) is stable: equal keys keep their order in the list.  *)
(***************************************************************************)
RECURSIVE InsertByLatency(_, _)
InsertByLatency(sorted, x) ==
    IF sorted = <<>> THEN <<x>>
    ELSE IF x.latency < Head(sorted).latency THEN <<x>> \o sorted
    ELSE <<Head(sorted)>> \o InsertByLatency(Tail(sorted), x)

RECURSIVE SortByLatencyFrom(_, _)
SortByLatencyFrom(sorted, rest) ==
    IF rest = <<>> THEN sorted
    ELSE SortByLatencyFrom(InsertByLatency(sorted, Head(rest)), Tail(rest))

\* lines 421 and 453: qualified_quick.sort(key=lambda x: x[2])
SortByLatency(l) == SortByLatencyFrom(<<>>, l)

RECURSIVE InsertBySpeedDesc(_, _)
InsertBySpeedDesc(sorted, x) ==
    IF sorted = <<>> THEN <<x>>
    ELSE IF x.download_speed > Head(sorted).download_speed THEN <<x>> \o sorted
    ELSE <<Head(sorted)>> \o InsertBySpeedDesc(Tail(sorted), x)

RECURSIVE SortBySpeedDescFrom(_, _)
SortBySpeedDescFrom(sorted, rest) ==
    IF rest = <<>> THEN sorted
    ELSE SortBySpeedDescFrom(InsertBySpeedDesc(sorted, Head(rest)), Tail(rest))

\* line 444: final_nodes.sort(key=download_speed, reverse=True)
SortBySpeedDesc(l) == SortBySpeedDescFrom(<<>>, l)

\* l[:n]
Take(l, n) == SubSeq(l, 1, IF Len(l) < n THEN Len(l) ELSE n)

(***************************************************************************)
(* Measurements.  What the network does is an input: tcp_ping returns      *)
(* (True, latency) or (False, _).  The latencies and speeds of the model   *)
(* are chosen so that every average of the code is a whole number.         *)
(***************************************************************************)
FAST == [success |-> TRUE, latency |-> 120]
SLOW == [success |-> TRUE, latency |-> 480]
DOWN == [success |-> FALSE, latency |-> UNREACHABLE_LATENCY]

\* the outcomes of the n calls of tcp_ping of one probe: a steady host
\* (fast, slow or down), or a fast host whose first attempt is slow or lost
PingScripts(n) ==
    {[i \in 1..n |-> FAST], [i \in 1..n |-> SLOW], [i \in 1..n |-> DOWN],
     [i \in 1..n |-> IF i = 1 THEN SLOW ELSE FAST],
     [i \in 1..n |-> IF i = 1 THEN DOWN ELSE FAST]}

\* what download_speed_test can return, in MB/s (0: no endpoint answered)
DownloadSpeeds == {0, 2, 6}

\* line 148: what one call of tcp_ping can return
TcpPingResults == {FAST, SLOW, DOWN}

\* lines 46-51: the benchmark endpoints, in the order they are tried
TEST_URLS == <<"speed.cloudflare.com", "cf.xiu2.xyz", "cachefly.cachefly.net",
               "speedtest.ftp.otenet.gr">>

\* line 40, in MB
SPEEDTEST_FILE_SIZE == 2

\* total_time of line 223 is counted in ticks
TICKS_PER_SECOND == 6

\* one answer to requests.get and to the reading of the body (lines 211-224):
\* raised (requests.get or iter_content raised), the status code, the MB read
\* before the body ended or test_size was reached, the ticks it took
HttpAnswer(raised, status, downloaded, total_time) ==
    [raised |-> raised, status |-> status, downloaded |-> downloaded,
     total_time |-> total_time]

\* a transport failure, a refusal, an empty body, half of the file, the whole
\* file quickly and the whole file slowly
HttpAnswers ==
    {HttpAnswer(TRUE, 0, 0, 1),
     HttpAnswer(FALSE, 503, 0, 1),
     HttpAnswer(FALSE, 200, 0, 1),
     HttpAnswer(FALSE, 200, 1, 3),
     HttpAnswer(FALSE, 200, SPEEDTEST_FILE_SIZE, 2),
     HttpAnswer(FALSE, 200, SPEEDTEST_FILE_SIZE, 6)}

\* lines 213-214 and 230-231: the loop goes on to the next endpoint
NextEndpoint(a) == a.raised \/ a.status # 200

\* lines 226-228: total_time is positive for every answer of the model
speed_mbps(a) == (a.downloaded * TICKS_PER_SECOND) \div a.total_time

RECURSIVE SumLatency(_)
SumLatency(outs) ==
    IF outs = <<>> THEN 0
    ELSE (IF Head(outs).success THEN Head(outs).latency ELSE 0) + SumLatency(Tail(outs))

SuccessCount(outs) == Cardinality({i \in 1..Len(outs) : outs[i].success})

\* lines 142-161; outs are the outcomes of the count calls of tcp_ping
quick_ping_test(count, outs) ==
    LET success_count == SuccessCount(outs)
    IN IF success_count > 0
       THEN [latency |-> SumLatency(outs) \div success_count,
             packet_loss |-> ((count - success_count) * 100) \div count]
       ELSE [latency |-> UNREACHABLE_LATENCY, packet_loss |-> FULL_LOSS]

RECURSIVE SumSeq(_)
SumSeq(l) == IF l = <<>> THEN 0 ELSE Head(l) + SumSeq(Tail(l))

\* mutant: the speed threshold is forgotten
QualifiedIgnoringSpeed(latency, packet_loss, avg_speed) ==
    /\ latency <= MAX_LATENCY
    /\ packet_loss <= MAX_PACKET_LOSS

\* line 266
Qualified(latency, packet_loss, avg_speed) ==
    /\ latency <= MAX_LATENCY
    /\ packet_loss <= MAX_PACKET_LOSS
    /\ avg_speed >= MIN_DOWNLOAD_SPEED

\* mutant: the re-check is forgotten
FastRejectNever(latency, packet_loss) == FALSE

\* line 244: the re-check that skips the download
FastReject(latency, packet_loss) ==
    latency > MAX_LATENCY \/ packet_loss > MAX_PACKET_LOSS

\* lines 235-278; pings are the outcomes of the PING_COUNT calls of tcp_ping,
\* speeds the results of the SPEEDTEST_COUNT calls of download_speed_test
detailed_speed_test(pings, speeds) ==
    LET m == quick_ping_test(PING_COUNT, pings)
        valid_tests == Cardinality({i \in 1..Len(speeds) : speeds[i] > 0})
        avg_speed == IF valid_tests > 0 THEN SumSeq(speeds) \div valid_tests ELSE 0
    IN IF FastReject(m.latency, m.packet_loss)
       THEN [latency |-> m.latency, packet_loss |-> m.packet_loss,
             download_speed |-> 0, qualified |-> FALSE]
       ELSE [latency |-> m.latency, packet_loss |-> m.packet_loss,
             download_speed |-> avg_speed,
             qualified |-> Qualified(m.latency, m.packet_loss, avg_speed)]

\* lines 313-318: what batch_detailed_speed_test stores when a worker raises
DetailedFailure ==
    [latency |-> UNREACHABLE_LATENCY, packet_loss |-> FULL_LOSS,
     download_speed |-> 0, qualified |-> FALSE]

\* line 295: what batch_quick_ping stores when a worker raises
QuickFailure == [latency |-> UNREACHABLE_LATENCY, packet_loss |-> FULL_LOSS]

\* every result a future of batch_quick_ping can deliver (lines 292-295)
QuickOutcomes ==
    {quick_ping_test(QUICK_PING_COUNT, outs) :
        outs \in PingScripts(QUICK_PING_COUNT)} \cup {QuickFailure}

\* every result a future of batch_detailed_speed_test can deliver (lines 311-318)
DetailedOutcomes ==
    {detailed_speed_test(x[1], x[2]) :
        x \in PingScripts(PING_COUNT)
              \X [1..SPEEDTEST_COUNT -> DownloadSpeeds]} \cup {DetailedFailure}

\* line 417
QuickQualified(r) == r.latency <= MAX_LATENCY /\ r.packet_loss <= MAX_PACKET_LOSS

(***************************************************************************)
(* Geolocation, lines 111-124.  SHARP_S stands for the single character    *)
(* U+00DF: str.isalpha() holds of it and str.upper() turns it into "SS".   *)
(***************************************************************************)
SHARP_S == "U+00DF"
UpperLetters == {"D", "E", "S", "X"}
LowerLetters == {"d", "e", SHARP_S}

isalpha(cc) == cc # <<>> /\ \A i \in 1..Len(cc) : cc[i] \in UpperLetters \cup LowerLetters

UpperOfChar(c) ==
    CASE c = "d" -> <<"D">>
      [] c = "e" -> <<"E">>
      [] c = SHARP_S -> <<"S", "S">>
      [] OTHER -> <<c>>

RECURSIVE upper(_)
upper(cc) == IF cc = <<>> THEN <<>> ELSE UpperOfChar(Head(cc)) \o upper(Tail(cc))

XX == <<"X", "X">>

\* one answer of the service: raised (requests.get or r.json() raised),
\* status, and the value of data.get("countryCode", "")
GeoAnswer(raised, status, isStr, cc) ==
    [raised |-> raised, status |-> status, isStr |-> isStr, cc |-> cc]

GeoResponses ==
    {GeoAnswer(TRUE, 0, FALSE, <<>>),
     GeoAnswer(FALSE, 500, FALSE, <<>>),
     GeoAnswer(FALSE, 200, TRUE, <<"d", "e">>),
     GeoAnswer(FALSE, 200, FALSE, <<>>),
     GeoAnswer(FALSE, 200, TRUE, <<>>),
     GeoAnswer(FALSE, 200, TRUE, <<"d", "1">>),
     GeoAnswer(FALSE, 200, TRUE, <<"d", "e", "e">>),
     GeoAnswer(FALSE, 200, TRUE, <<SHARP_S, "e">>)}

\* lines 116-120: the answer makes get_cc_ipapi return
GeoAccepted(r) ==
    /\ ~r.raised
    /\ r.status = 200
    /\ r.isStr /\ Len(r.cc) = 2 /\ isalpha(r.cc)

RECURSIVE GetCcFrom(_, _)
GetCcFrom(rs, i) ==
    IF i > RETRIES + 1 THEN XX
    ELSE IF GeoAccepted(rs[i]) THEN upper(rs[i].cc)
    ELSE GetCcFrom(rs, i + 1)

\* rs[i] is the answer to the i-th request, should it be made
get_cc_ipapi(rs) == GetCcFrom(rs, 1)

\* every result a future of batch_get_cc can deliver (lines 333-335)
GeoOutcomes == {get_cc_ipapi(rs) : rs \in [1..(RETRIES + 1) -> GeoResponses]} \cup {XX}


(***************************************************************************)
(* State of one run of main().                                             *)
(***************************************************************************)
VARIABLES
    pc,               \* where main() is
    tls_text,         \* content of TLS_FILE ("" if missing)
    diy_url_text,     \* text fetched from DIY_URL ("" on any failure)
    diy_file_text,    \* content of DIY_FILE ("" if missing)
    tls_items,        \* line 384
    diy_items,        \* line 385
    by_ip,            \* line 392: dict in insertion order
    quick_results,    \* line 412: list in completion order
    qualified_quick,  \* line 415
    candidate_nodes,  \* line 422
    detailed_results, \* line 429: dict in completion order
    final_nodes,      \* line 432
    cc_map,           \* line 468
    out_txt,          \* OUTPUT_TXT
    out_csv,          \* OUTPUT_CSV
    doubled,          \* parse_text_to_items on tls_text and on tls_text twice
    worker            \* one call of a pool worker, attempt by attempt

vars == <<pc, tls_text, diy_url_text, diy_file_text, tls_items, diy_items, by_ip,
          quick_results, qualified_quick, candidate_nodes, detailed_results,
          final_nodes, cc_map, out_txt, out_csv, doubled, worker>>

NoFile == [written |-> FALSE, header |-> <<>>, rows |-> <<>>]
NotDoubled == [done |-> FALSE, once |-> <<>>, twice |-> <<>>]

\* a call of quick_ping_test (fn, count) or of detailed_speed_test as a pool
\* submits it: nothing measured, nothing requested
Submitted(fn, count) ==
    [fn |-> fn, pc |-> "ping", count |-> count, pings |-> <<>>,
     latency |-> 0, packet_loss |-> 0,
     tried |-> <<>>, calls |-> <<>>, speeds |-> <<>>, requests |-> 0,
     download_speed |-> 0, qualified |-> FALSE]

NoWorker == [Submitted("none", 0) EXCEPT !.pc = "returned"]

InitRest ==
    /\ pc = "start"
    /\ tls_items = <<>>
    /\ diy_items = <<>>
    /\ by_ip = <<>>
    /\ quick_results = <<>>
    /\ qualified_quick = <<>>
    /\ candidate_nodes = <<>>
    /\ detailed_results = <<>>
    /\ final_nodes = <<>>
    /\ cc_map = <<>>
    /\ out_txt = NoFile
    /\ out_csv = NoFile
    /\ doubled = NotDoubled

\* the sources of the runs of Spec
TlsTexts == {<<>>, IPA \o PORT8 \o <<NL>> \o IPB}
DiyUrlTexts == {<<>>, <<"#", NL>>}
DiyFileTexts == {<<>>, IPA \o <<NL>> \o IPC}

Init ==
    /\ tls_text \in TlsTexts
    /\ diy_url_text \in DiyUrlTexts
    /\ diy_file_text \in DiyFileTexts
    /\ InitRest
    /\ worker = NoWorker

\* the sources of the runs of SpecParse
InitParse ==
    /\ tls_text \in BlobsUpTo(MaxTlsPieces)
    /\ diy_url_text = <<>>
    /\ diy_file_text \in BlobsUpTo(MaxDiyPieces)
    /\ InitRest
    /\ worker = NoWorker

\* the blobs of the runs of SpecDoubled
InitDoubled ==
    /\ tls_text \in BlobsUpTo(MaxBlobPieces)
    /\ diy_url_text = <<>>
    /\ diy_file_text = <<>>
    /\ InitRest
    /\ worker = NoWorker

(***************************************************************************)
(* main(), lines 383-412                                                   *)
(***************************************************************************)
\* lines 384-385
ParseSources ==
    /\ pc = "start"
    /\ tls_items' = parse_tls_file(tls_text)
    /\ diy_items' = parse_diy_source(diy_url_text, diy_file_text)
    /\ pc' = "parsed"
    /\ UNCHANGED <<tls_text, diy_url_text, diy_file_text, by_ip, quick_results,
                   qualified_quick, candidate_nodes, detailed_results, final_nodes,
                   cc_map, out_txt, out_csv, doubled, worker>>

\* mutant: one empty source is enough to stop
NoInputConditionEither(tls, diy) == tls = <<>> \/ diy = <<>>

\* line 387
NoInputCondition(tls, diy) == tls = <<>> /\ diy = <<>>

\* lines 387-389
NoInput ==
    /\ pc = "parsed"
    /\ NoInputCondition(tls_items, diy_items)
    /\ pc' = "aborted"
    /\ UNCHANGED <<tls_text, diy_url_text, diy_file_text, tls_items, diy_items, by_ip,
                   quick_results, qualified_quick, candidate_nodes, detailed_results,
                   final_nodes, cc_map, out_txt, out_csv, doubled, worker>>

\* lines 391-412: the merge, then the submission of every candidate to the pool
MergeSources ==
    /\ pc = "parsed"
    /\ ~NoInputCondition(tls_items, diy_items)
    /\ by_ip' = Merge(tls_items, diy_items)
    /\ pc' = "quick"
    /\ UNCHANGED <<tls_text, diy_url_text, diy_file_text, tls_items, diy_items,
                   quick_results, qualified_quick, candidate_nodes, detailed_results,
                   final_nodes, cc_map, out_txt, out_csv, doubled, worker>>

\* parse_text_to_items applied to a blob and to the blob followed by itself
ParseDoubled ==
    /\ pc = "start"
    /\ ~doubled.done
    /\ doubled' = [done |-> TRUE,
                   once |-> parse_text_to_items(tls_text),
                   twice |-> parse_text_to_items(tls_text \o tls_text)]
    /\ UNCHANGED <<pc, tls_text, diy_url_text, diy_file_text, tls_items, diy_items, by_ip,
                   quick_results, qualified_quick, candidate_nodes, detailed_results,
                   final_nodes, cc_map, out_txt, out_csv, worker>>

(***************************************************************************)
(* ThreadPoolExecutor: tasks start in submission order as workers become   *)
(* free, so task i can have finished only if fewer than max_workers tasks  *)
(* submitted before it are still unfinished; as_completed yields the       *)
(* futures in the order they finish.                                       *)
(***************************************************************************)
MayFinish(i, done, max_workers) ==
    /\ i \notin done
    /\ Cardinality({j \in 1..(i - 1) : j \notin done}) < max_workers

QuickDone ==
    {i \in 1..Len(by_ip) : \E k \in 1..Len(quick_results) : quick_results[k].ip = by_ip[i].ip}

\* lines 289-295: one future of batch_quick_ping completes; line 285 calls
\* quick_ping_test(ip, port) with its default count
QuickPingDone(i) ==
    /\ pc = "quick"
    /\ MayFinish(i, QuickDone, MAX_WORKERS)
    /\ \E m \in QuickOutcomes :
         LET c == IpPortList(by_ip)[i]
         IN quick_results' = Append(quick_results,
                [ip |-> c.ip, port |-> c.port,
                 latency |-> m.latency, packet_loss |-> m.packet_loss])
    /\ UNCHANGED <<pc, tls_text, diy_url_text, diy_file_text, tls_items, diy_items, by_ip,
                   qualified_quick, candidate_nodes, detailed_results, final_nodes,
                   cc_map, out_txt, out_csv, doubled, worker>>

\* lines 415-421
RECURSIVE KeepQuickQualified(_)
KeepQuickQualified(results) ==
    IF results = <<>> THEN <<>>
    ELSE (IF QuickQualified(Head(results)) THEN <<Head(results)>> ELSE <<>>)
         \o KeepQuickQualified(Tail(results))

\* mutant: the quick-qualified results are not sorted before the cut
QualifiedQuickUnsorted(results) == KeepQuickQualified(results)

QualifiedQuick(results) == SortByLatency(KeepQuickQualified(results))

\* line 422
CandidateNodes(qq) == Take(qq, SHORTLIST_SIZE)

\* lines 414-429: batch_quick_ping has returned; filter, sort, shortlist, submit
FilterQuick ==
    /\ pc = "quick"
    /\ Len(quick_results) = Len(by_ip)
    /\ qualified_quick' = QualifiedQuick(quick_results)
    /\ candidate_nodes' = CandidateNodes(QualifiedQuick(quick_results))
    /\ pc' = "detailed"
    /\ UNCHANGED <<tls_text, diy_url_text, diy_file_text, tls_items, diy_items, by_ip,
                   quick_results, detailed_results, final_nodes, cc_map, out_txt,
                   out_csv, doubled, worker>>

DetailedDone ==
    {i \in 1..Len(candidate_nodes) :
        \E k \in 1..Len(detailed_results) :
            /\ detailed_results[k].ip = candidate_nodes[i].ip
            /\ detailed_results[k].port = candidate_nodes[i].port}

\* lines 308-318: one future of batch_detailed_speed_test completes
DetailedTestDone(i) ==
    /\ pc = "detailed"
    /\ MayFinish(i, DetailedDone, MAX_WORKERS_SPEEDTEST)
    /\ i \in 1..Len(candidate_nodes)
    /\ \E r \in DetailedOutcomes :
         detailed_results' = Append(detailed_results,
                [ip |-> candidate_nodes[i].ip, port |-> candidate_nodes[i].port,
                 latency |-> r.latency, packet_loss |-> r.packet_loss,
                 download_speed |-> r.download_speed, qualified |-> r.qualified])
    /\ UNCHANGED <<pc, tls_text, diy_url_text, diy_file_text, tls_items, diy_items, by_ip,
                   quick_results, qualified_quick, candidate_nodes, final_nodes, cc_map,
                   out_txt, out_csv, doubled, worker>>


(***************************************************************************)
(* main(), lines 431-497                                                   *)
(***************************************************************************)
\* lines 435-441
NodeOfDetailed(r) ==
    [ip |-> r.ip, port |-> str(r.port), latency |-> r.latency,
     packet_loss |-> r.packet_loss, download_speed |-> r.download_speed]

\* lines 455-461
NodeOfQuick(r) ==
    [ip |-> r.ip, port |-> str(r.port), latency |-> r.latency,
     packet_loss |-> r.packet_loss, download_speed |-> 0]

RECURSIVE QualifiedNodes(_)
QualifiedNodes(results) ==
    IF results = <<>> THEN <<>>
    ELSE (IF Head(results).qualified THEN <<NodeOfDetailed(Head(results))>> ELSE <<>>)
         \o QualifiedNodes(Tail(results))

\* lines 432-445
PrimaryNodes(results) == Take(SortBySpeedDesc(QualifiedNodes(results)), MAX_OUTPUT_NODES)

\* mutant: the fallback forgets to truncate
FallbackNodesUntruncated(qq) ==
    LET top == SortByLatency(qq)
    IN [k \in 1..Len(top) |-> NodeOfQuick(top[k])]

\* lines 453-461
FallbackNodes(qq) ==
    LET top == Take(SortByLatency(qq), MAX_OUTPUT_NODES)
    IN [k \in 1..Len(top) |-> NodeOfQuick(top[k])]

\* mutant: the quick-only candidates are added whatever the primary path gave
FinalNodesAlwaysAppend(results, qq) == PrimaryNodes(results) \o FallbackNodes(qq)

\* mutant: no fallback
FinalNodesNoFallback(results, qq) == PrimaryNodes(results)

\* lines 431-462
FinalNodes(results, qq) ==
    IF Len(PrimaryNodes(results)) = 0 THEN FallbackNodes(qq) ELSE PrimaryNodes(results)

\* lines 431-468: batch_detailed_speed_test has returned; rank, fall back,
\* submit the geolocation lookups
RankFinal ==
    /\ pc = "detailed"
    /\ Len(detailed_results) = Len(candidate_nodes)
    /\ final_nodes' = FinalNodes(detailed_results, qualified_quick)
    /\ qualified_quick' = IF Len(PrimaryNodes(detailed_results)) = 0
                          THEN SortByLatency(qualified_quick)
                          ELSE qualified_quick
    /\ pc' = "geo"
    /\ UNCHANGED <<tls_text, diy_url_text, diy_file_text, tls_items, diy_items, by_ip,
                   quick_results, candidate_nodes, detailed_results, cc_map, out_txt,
                   out_csv, doubled, worker>>

\* lines 330-335: one future of batch_get_cc completes
GeoLookupDone(i) ==
    /\ pc = "geo"
    /\ i \in 1..Len(final_nodes)
    /\ final_nodes[i].ip \notin DOMAIN cc_map
    /\ MayFinish(i, {j \in 1..Len(final_nodes) : final_nodes[j].ip \in DOMAIN cc_map},
                 MAX_WORKERS)
    /\ \E cc \in GeoOutcomes : cc_map' = cc_map @@ (final_nodes[i].ip :> cc)
    /\ UNCHANGED <<pc, tls_text, diy_url_text, diy_file_text, tls_items, diy_items, by_ip,
                   quick_results, qualified_quick, candidate_nodes, detailed_results,
                   final_nodes, out_txt, out_csv, doubled, worker>>

\* line 470: cc_map.get(node["ip"], "XX")
CountryOf(m, ip) == IF ip \in DOMAIN m THEN m[ip] ELSE XX

\* lines 474-477: the header of OUTPUT_TXT
TxtHeader(nodes) ==
    <<<<"title">>,
      <<"criteria", MAX_LATENCY, MAX_PACKET_LOSS, MIN_DOWNLOAD_SPEED>>,
      <<"count", Len(nodes)>>,
      <<"format">>>>

\* line 480
TxtLine(node) == node.ip \o <<":">> \o node.port \o <<"#">> \o node.country

\* lines 488-495
CsvRow(node) ==
    <<node.ip, node.port, node.country, node.latency, node.packet_loss,
      node.download_speed>>

CsvHeader ==
    <<"ip", "port", "country", "latency_ms", "packet_loss_percent", "download_speed_mbps">>

\* lines 469-497: batch_get_cc has returned (or there is no node); annotate
\* the nodes and write both files
WriteOutputs ==
    /\ pc = "geo"
    /\ \A i \in 1..Len(final_nodes) : final_nodes[i].ip \in DOMAIN cc_map
    /\ LET annotated ==
               [i \in 1..Len(final_nodes) |->
                   [ip |-> final_nodes[i].ip, port |-> final_nodes[i].port,
                    latency |-> final_nodes[i].latency,
                    packet_loss |-> final_nodes[i].packet_loss,
                    download_speed |-> final_nodes[i].download_speed,
                    country |-> CountryOf(cc_map, final_nodes[i].ip)]]
       IN /\ final_nodes' = annotated
          /\ out_txt' = [written |-> TRUE, header |-> TxtHeader(annotated),
                         rows |-> [i \in 1..Len(annotated) |-> TxtLine(annotated[i])]]
          /\ out_csv' = [written |-> TRUE, header |-> CsvHeader,
                         rows |-> [i \in 1..Len(annotated) |-> CsvRow(annotated[i])]]
    /\ pc' = "done"
    /\ UNCHANGED <<tls_text, diy_url_text, diy_file_text, tls_items, diy_items, by_ip,
                   quick_results, qualified_quick, candidate_nodes, detailed_results,
                   cc_map, doubled, worker>>

(***************************************************************************)
(* One call of a pool worker, one network operation at a time: the call    *)
(* of quick_ping_test that batch_quick_ping submits (line 285) or the call *)
(* of detailed_speed_test that batch_detailed_speed_test submits (line     *)
(* 304).  worker.requests counts the calls of requests.get, worker.calls   *)
(* keeps, for every call of download_speed_test that returned, the answers *)
(* of the endpoints it tried and the speed it returned.                    *)
(***************************************************************************)
\* line 285 passes no count: quick_ping_test runs with its default
QuickPingCall == Submitted("quick_ping_test", QUICK_PING_COUNT)

\* line 240: detailed_speed_test starts with quick_ping_test(ip, port, PING_COUNT)
DetailedCall == Submitted("detailed_speed_test", PING_COUNT)

InitWorker ==
    /\ tls_text = <<>>
    /\ diy_url_text = <<>>
    /\ diy_file_text = <<>>
    /\ InitRest
    /\ worker \in {QuickPingCall, DetailedCall}

\* lines 147-152: one turn of the loop of quick_ping_test
TcpPing ==
    /\ worker.pc = "ping"
    /\ Len(worker.pings) < worker.count
    /\ \E r \in TcpPingResults : worker' = [worker EXCEPT !.pings = Append(@, r)]
    /\ UNCHANGED <<pc, tls_text, diy_url_text, diy_file_text, tls_items, diy_items, by_ip,
                   quick_results, qualified_quick, candidate_nodes, detailed_results,
                   final_nodes, cc_map, out_txt, out_csv, doubled>>

\* lines 154-161: the call submitted by batch_quick_ping returns
QuickPingReturn ==
    /\ worker.fn = "quick_ping_test"
    /\ worker.pc = "ping"
    /\ Len(worker.pings) = worker.count
    /\ LET m == quick_ping_test(worker.count, worker.pings)
       IN worker' = [worker EXCEPT !.latency = m.latency,
                                   !.packet_loss = m.packet_loss,
                                   !.pc = "returned"]
    /\ UNCHANGED <<pc, tls_text, diy_url_text, diy_file_text, tls_items, diy_items, by_ip,
                   quick_results, qualified_quick, candidate_nodes, detailed_results,
                   final_nodes, cc_map, out_txt, out_csv, doubled>>

\* lines 240-251: quick_ping_test returns to detailed_speed_test, which returns
\* at once or goes on to the downloads
Recheck ==
    /\ worker.fn = "detailed_speed_test"
    /\ worker.pc = "ping"
    /\ Len(worker.pings) = worker.count
    /\ LET m == quick_ping_test(worker.count, worker.pings)
           rejected == FastReject(m.latency, m.packet_loss)
       IN worker' = [worker EXCEPT !.latency = m.latency,
                                   !.packet_loss = m.packet_loss,
                                   !.download_speed = 0,
                                   !.qualified = FALSE,
                                   !.pc = IF rejected THEN "returned" ELSE "download"]
    /\ UNCHANGED <<pc, tls_text, diy_url_text, diy_file_text, tls_items, diy_items, by_ip,
                   quick_results, qualified_quick, candidate_nodes, detailed_results,
                   final_nodes, cc_map, out_txt, out_csv, doubled>>

\* lines 169-233: one turn of the loop over TEST_URLS, with the return of
\* download_speed_test when the turn ends the call, and lines 257-278 of
\* detailed_speed_test when that call was the last
HttpGet ==
    /\ worker.pc = "download"
    /\ \E a \in HttpAnswers :
         LET tried == Append(worker.tried, a)
             returns == ~NextEndpoint(a) \/ Len(tried) = Len(TEST_URLS)
             speed == IF NextEndpoint(a) THEN 0 ELSE speed_mbps(a)
             speeds == Append(worker.speeds, speed)
             last == returns /\ Len(speeds) = SPEEDTEST_COUNT
             r == detailed_speed_test(worker.pings, speeds)
         IN worker' = [worker EXCEPT
                !.requests = @ + 1,
                !.tried = IF returns THEN <<>> ELSE tried,
                !.calls = IF returns THEN Append(@, [answers |-> tried, speed |-> speed])
                          ELSE @,
                !.speeds = IF returns THEN speeds ELSE @,
                !.download_speed = IF last THEN r.download_speed ELSE @,
                !.qualified = IF last THEN r.qualified ELSE @,
                !.pc = IF last THEN "returned" ELSE @]
    /\ UNCHANGED <<pc, tls_text, diy_url_text, diy_file_text, tls_items, diy_items, by_ip,
                   quick_results, qualified_quick, candidate_nodes, detailed_results,
                   final_nodes, cc_map, out_txt, out_csv, doubled>>

Next ==
    \/ ParseSources
    \/ NoInput
    \/ MergeSources
    \/ \E i \in 1..Len(by_ip) : QuickPingDone(i)
    \/ FilterQuick
    \/ \E i \in 1..Len(candidate_nodes) : DetailedTestDone(i)
    \/ RankFinal
    \/ \E i \in 1..Len(final_nodes) : GeoLookupDone(i)
    \/ WriteOutputs

Spec == Init /\ [][Next]_vars

NextParse ==
    \/ ParseSources
    \/ NoInput
    \/ MergeSources

SpecParse == InitParse /\ [][NextParse]_vars

NextDoubled == ParseDoubled

SpecDoubled == InitDoubled /\ [][NextDoubled]_vars

NextWorker ==
    \/ TcpPing
    \/ QuickPingReturn
    \/ Recheck
    \/ HttpGet

SpecWorker == InitWorker /\ [][NextWorker]_vars


(***************************************************************************)
(* Properties                                                              *)
(***************************************************************************)
Ranked == pc \in {"geo", "done"}

AllUnqualified == \A k \in 1..Len(detailed_results) : ~detailed_results[k].qualified

\* the quick results that pass the thresholds of the reachability stage
QuickPassing ==
    {k \in 1..Len(quick_results) :
        /\ quick_results[k].latency <= MAX_LATENCY
        /\ quick_results[k].packet_loss <= MAX_PACKET_LOSS}

Min(a, b) == IF a < b THEN a ELSE b

\* C1: the final node list never has more than MAX_OUTPUT_NODES entries, on
\* the primary path and on the fallback path alike.
C1_BoundedOutput == Len(final_nodes) <= MAX_OUTPUT_NODES

\* more results qualified than fit, and the list was cut to the maximum
C1_Witness ==
    /\ pc = "done"
    /\ Cardinality({k \in 1..Len(detailed_results) : detailed_results[k].qualified})
         > MAX_OUTPUT_NODES
    /\ Len(final_nodes) = MAX_OUTPUT_NODES

\* C2: if no throughput result is qualified, the final list is the first
\* MAX_OUTPUT_NODES quick-qualified candidates by ascending stage-1 latency,
\* each with its stage-1 latency and loss and download speed 0; otherwise
\* every final node comes from a qualified throughput result.
C2_Fallback ==
    Ranked =>
      IF AllUnqualified
      THEN /\ Len(final_nodes) = Min(MAX_OUTPUT_NODES, Cardinality(QuickPassing))
           /\ \A i \in 1..Len(final_nodes) :
                /\ final_nodes[i].download_speed = 0
                /\ \E k \in QuickPassing :
                     /\ quick_results[k].ip = final_nodes[i].ip
                     /\ str(quick_results[k].port) = final_nodes[i].port
                     /\ quick_results[k].latency = final_nodes[i].latency
                     /\ quick_results[k].packet_loss = final_nodes[i].packet_loss
           /\ \A i, j \in 1..Len(final_nodes) :
                /\ i < j => final_nodes[i].latency <= final_nodes[j].latency
                /\ i # j => final_nodes[i].ip # final_nodes[j].ip
           /\ \A k \in QuickPassing :
                (\A i \in 1..Len(final_nodes) : final_nodes[i].ip # quick_results[k].ip)
                  => \A i \in 1..Len(final_nodes) :
                        final_nodes[i].latency <= quick_results[k].latency
      ELSE \A i \in 1..Len(final_nodes) :
             \E k \in 1..Len(detailed_results) :
                /\ detailed_results[k].qualified
                /\ detailed_results[k].ip = final_nodes[i].ip
                /\ detailed_results[k].download_speed = final_nodes[i].download_speed
                /\ detailed_results[k].latency = final_nodes[i].latency

\* the fallback ran on more quick-qualified candidates than fit, after a
\* throughput stage that tested some candidate and qualified none
C2_Witness ==
    /\ pc = "done"
    /\ Len(detailed_results) > 0
    /\ AllUnqualified
    /\ Cardinality(QuickPassing) > MAX_OUTPUT_NODES
    /\ Len(final_nodes) = MAX_OUTPUT_NODES
    /\ \E k \in QuickPassing : quick_results[k].latency > final_nodes[1].latency

\* C3: a throughput result is qualified exactly when its own latency, loss
\* and speed all meet their thresholds.
C3_QualificationGate ==
    \A k \in 1..Len(detailed_results) :
        detailed_results[k].qualified <=>
            /\ detailed_results[k].latency <= MAX_LATENCY
            /\ detailed_results[k].packet_loss <= MAX_PACKET_LOSS
            /\ detailed_results[k].download_speed >= MIN_DOWNLOAD_SPEED

\* one result qualified, one that fails on speed alone
C3_Witness ==
    /\ \E k \in 1..Len(detailed_results) : detailed_results[k].qualified
    /\ \E k \in 1..Len(detailed_results) :
        /\ ~detailed_results[k].qualified
        /\ detailed_results[k].latency <= MAX_LATENCY
        /\ detailed_results[k].packet_loss <= MAX_PACKET_LOSS
        /\ detailed_results[k].download_speed > 0


\* the secondary blob main() parses (lines 354-373)
DiySourceText == IF diy_url_text # <<>> THEN diy_url_text ELSE diy_file_text

\* the blob gives the address with a port written after it
ExplicitIn(text, ip) ==
    LET found == FullFindAll(CleanText(text), 1)
    IN \E k \in 1..Len(found) : found[k].ip = ip

\* the blob gives the address, and only without a port
BareIn(text, ip) ==
    /\ ~ExplicitIn(text, ip)
    /\ \E k \in 1..Len(IpFindAll(CleanText(text), 1)) : IpFindAll(CleanText(text), 1)[k] = ip

PortIn(items, ip) == items[DictIndex(items, ip)].port

Merged == pc \in {"quick", "detailed", "geo", "done"}

\* C4: a port written in the secondary blob replaces the default port of a
\* bare address of the primary blob, and a bare address in the secondary
\* blob leaves the port written in the primary blob as it is.
C4_OverridePolicy ==
    Merged =>
      \A i \in 1..Len(by_ip) :
        LET ip == by_ip[i].ip
        IN /\ (BareIn(tls_text, ip) /\ ExplicitIn(DiySourceText, ip))
                => by_ip[i].port = PortIn(diy_items, ip)
           /\ (ExplicitIn(tls_text, ip) /\ BareIn(DiySourceText, ip))
                => by_ip[i].port = PortIn(tls_items, ip)

\* C5 as claimed: a candidate with a successful connection attempt in the
\* reachability stage is enough for a non-empty final list.
C5_ReachableGivesOutput ==
    (pc = "done" /\ \E k \in 1..Len(quick_results) : quick_results[k].packet_loss < FULL_LOSS)
      => final_nodes # <<>>

\* C5 as amended: a candidate that passes the latency and loss thresholds of
\* the reachability stage is enough for a non-empty final list, whatever the
\* throughput stage measured.
C5_QuickQualifiedGivesOutput ==
    (pc = "done" /\ QuickPassing # {}) => final_nodes # <<>>

\* every throughput test failed and the list is filled from the quick results
C5_Witness ==
    /\ pc = "done"
    /\ QuickPassing # {}
    /\ Len(detailed_results) > 0
    /\ \A k \in 1..Len(detailed_results) : detailed_results[k].download_speed = 0
    /\ final_nodes # <<>>

MergeIndex(ip) == DictIndex(by_ip, ip)

\* quick result j comes before quick result k: lower latency, then merge order
LatencyBefore(j, k) ==
    \/ quick_results[j].latency < quick_results[k].latency
    \/ /\ quick_results[j].latency = quick_results[k].latency
       /\ MergeIndex(quick_results[j].ip) < MergeIndex(quick_results[k].ip)

\* throughput result j comes before result k: higher speed, then merge order
SpeedBefore(j, k) ==
    \/ detailed_results[j].download_speed > detailed_results[k].download_speed
    \/ /\ detailed_results[j].download_speed = detailed_results[k].download_speed
       /\ MergeIndex(detailed_results[j].ip) < MergeIndex(detailed_results[k].ip)

QualifiedResults == {k \in 1..Len(detailed_results) : detailed_results[k].qualified}

\* the addresses of the final list if ties followed the merge order
ExpectedFinalIps ==
    IF QualifiedResults = {}
    THEN [r \in 1..Min(MAX_OUTPUT_NODES, Cardinality(QuickPassing)) |->
            quick_results[CHOOSE k \in QuickPassing :
                Cardinality({j \in QuickPassing : LatencyBefore(j, k)}) = r - 1].ip]
    ELSE [r \in 1..Min(MAX_OUTPUT_NODES, Cardinality(QualifiedResults)) |->
            detailed_results[CHOOSE k \in QualifiedResults :
                Cardinality({j \in QualifiedResults : SpeedBefore(j, k)}) = r - 1].ip]

\* C6: the final list is the same for every completion order of the pool
\* workers: it follows speed (primary path) or latency (fallback path), and
\* equal keys follow the insertion order of the merge map.
C6_DeterministicOrder ==
    pc = "done" => [i \in 1..Len(final_nodes) |-> final_nodes[i].ip] = ExpectedFinalIps

\* some step of main() or of a pool worker can be taken
RunGoesOn ==
    \/ pc \in {"start", "parsed"}
    \/ /\ pc = "quick"
       /\ \/ Len(quick_results) = Len(by_ip)
          \/ \E i \in 1..Len(by_ip) : MayFinish(i, QuickDone, MAX_WORKERS)
    \/ /\ pc = "detailed"
       /\ \/ Len(detailed_results) = Len(candidate_nodes)
          \/ \E i \in 1..Len(candidate_nodes) :
                MayFinish(i, DetailedDone, MAX_WORKERS_SPEEDTEST)
    \/ /\ pc = "geo"
       /\ \/ \A i \in 1..Len(final_nodes) : final_nodes[i].ip \in DOMAIN cc_map
          \/ \E i \in 1..Len(final_nodes) : final_nodes[i].ip \notin DOMAIN cc_map

SameCandidates(a, b) ==
    {a[k] : k \in 1..Len(a)} = {b[k] : k \in 1..Len(b)}

\* C8 as claimed: parsing a blob followed by itself gives the candidate set
\* of the blob.
C8_DoubledBlob == doubled.done => SameCandidates(doubled.once, doubled.twice)

EndsLine(text) == text = <<>> \/ text[Len(text)] = NL

\* C8 as amended: for a blob that is empty or ends with a line break,
\* parsing the blob followed by itself gives the candidate set of the blob,
\* each address once.
C8_DoubledLines ==
    (doubled.done /\ EndsLine(tls_text)) =>
        /\ SameCandidates(doubled.once, doubled.twice)
        /\ \A j, k \in 1..Len(doubled.twice) :
              j # k => doubled.twice[j].ip # doubled.twice[k].ip

\* a line with an address and its port was parsed once and doubled
C8_Witness ==
    /\ doubled.done
    /\ tls_text # <<>>
    /\ EndsLine(tls_text)
    /\ \E k \in 1..Len(doubled.once) : doubled.once[k].port # DEFAULT_PORT
    /\ Len(doubled.twice) = Len(doubled.once)

\* C9: the country code of every final node written is "XX" or two
\* uppercase letters.
C9_CountryCodeDomain ==
    pc = "done" =>
      \A i \in 1..Len(final_nodes) :
        \/ final_nodes[i].country = XX
        \/ /\ Len(final_nodes[i].country) = 2
           /\ \A j \in 1..2 : final_nodes[i].country[j] \in UpperLetters

\* the headers a run that took the primary path can write
PrimaryHeaders ==
    {TxtHeader([i \in 1..n |-> "node"]) : n \in 1..MAX_OUTPUT_NODES}

\* C10: the header of the TXT file of a run that fell back differs from the
\* header of every primary-path run with as many nodes.
C10_FallbackVisibleInHeader ==
    (pc = "done" /\ QualifiedResults = {} /\ final_nodes # <<>>)
      => out_txt.header \notin PrimaryHeaders

\* the worker is a call submitted by batch_quick_ping and has returned
QuickProbed == worker.fn = "quick_ping_test" /\ worker.pc = "returned"

\* C11: every candidate of the reachability stage is probed with exactly
\* PING_COUNT connection attempts; its loss is 100 * (PING_COUNT - successes)
\* / PING_COUNT and its latency the average over the successful attempts, or
\* 9999 with 100% loss when no attempt succeeds.
C11_FourAttempts ==
    QuickProbed =>
      LET successes == SuccessCount(worker.pings)
      IN /\ Len(worker.pings) = PING_COUNT
         /\ IF successes = 0
            THEN /\ worker.latency = UNREACHABLE_LATENCY
                 /\ worker.packet_loss = FULL_LOSS
            ELSE /\ worker.latency * successes = SumLatency(worker.pings)
                 /\ worker.packet_loss * PING_COUNT = 100 * (PING_COUNT - successes)

\* the re-check of detailed_speed_test has been made and has failed
RecheckFailed ==
    /\ worker.fn = "detailed_speed_test"
    /\ Len(worker.pings) = PING_COUNT
    /\ worker.pc # "ping"
    /\ (worker.latency > MAX_LATENCY \/ worker.packet_loss > MAX_PACKET_LOSS)

\* the re-check of detailed_speed_test has been made and has passed
RecheckPassed ==
    /\ worker.fn = "detailed_speed_test"
    /\ Len(worker.pings) = PING_COUNT
    /\ worker.pc # "ping"
    /\ worker.latency <= MAX_LATENCY
    /\ worker.packet_loss <= MAX_PACKET_LOSS

\* C13: a candidate whose re-measured latency or loss is over its threshold
\* is returned with download speed 0 and unqualified, and no download request
\* is ever issued for it; requests are issued only after the re-check passed.
C13_NoDownloadAfterReject ==
    /\ RecheckFailed =>
         /\ worker.pc = "returned"
         /\ worker.download_speed = 0
         /\ ~worker.qualified
         /\ worker.requests = 0
    /\ worker.requests > 0 => RecheckPassed

\* a candidate that lost one attempt of four was returned without a download
C13_Witness ==
    /\ RecheckFailed
    /\ worker.pc = "returned"
    /\ worker.latency <= MAX_LATENCY
    /\ worker.packet_loss > MAX_PACKET_LOSS
    /\ worker.packet_loss < FULL_LOSS
    /\ worker.requests = 0

\* the endpoint failed: transport failure, refusal, or fewer bytes than asked
Unusable(a) == a.raised \/ a.status # 200 \/ a.downloaded < SPEEDTEST_FILE_SIZE

\* C14: a call of download_speed_test tries the endpoints in order until one
\* gives a usable response: every unusable response (transport failure,
\* non-200, fewer bytes than requested) is followed by the next endpoint, and
\* the call returns 0 only when every endpoint has failed.
C14_EndpointFallThrough ==
    \A k \in 1..Len(worker.calls) :
        LET answers == worker.calls[k].answers
            n == Len(answers)
        IN /\ n >= 1 /\ n <= Len(TEST_URLS)
           /\ \A j \in 1..(n - 1) : Unusable(answers[j])
           /\ Unusable(answers[n]) => n = Len(TEST_URLS)
           /\ worker.calls[k].speed = 0 =>
                /\ n = Len(TEST_URLS)
                /\ \A j \in 1..n : Unusable(answers[j])

Shortlisted == pc \in {"detailed", "geo", "done"}

\* the addresses handed to the throughput stage
PromotedIps == {candidate_nodes[i].ip : i \in 1..Len(candidate_nodes)}

\* C12: the candidates handed to the throughput stage are quick-qualified,
\* at most SHORTLIST_SIZE, and latency-minimal (no quick-qualified candidate
\* left out has a strictly lower stage-1 latency than a promoted one);
\* throughput results exist for the promoted candidates only, at most one
\* for each, and for every one of them once the stage is over.
C12_Shortlist ==
    Shortlisted =>
      /\ Len(candidate_nodes) <= SHORTLIST_SIZE
      /\ \A i \in 1..Len(candidate_nodes) :
           \E k \in QuickPassing :
              /\ quick_results[k].ip = candidate_nodes[i].ip
              /\ quick_results[k].port = candidate_nodes[i].port
              /\ quick_results[k].latency = candidate_nodes[i].latency
      /\ \A i, j \in 1..Len(candidate_nodes) :
           i # j => candidate_nodes[i].ip # candidate_nodes[j].ip
      /\ \A k \in QuickPassing :
           quick_results[k].ip \notin PromotedIps =>
              \A i \in 1..Len(candidate_nodes) :
                 candidate_nodes[i].latency <= quick_results[k].latency
      /\ \A k \in 1..Len(detailed_results) : detailed_results[k].ip \in PromotedIps
      /\ \A j, k \in 1..Len(detailed_results) :
           j # k => detailed_results[j].ip # detailed_results[k].ip
      /\ pc \in {"geo", "done"} =>
           \A i \in 1..Len(candidate_nodes) :
              \E k \in 1..Len(detailed_results) :
                 /\ detailed_results[k].ip = candidate_nodes[i].ip
                 /\ detailed_results[k].port = candidate_nodes[i].port

\* more candidates were quick-qualified than the shortlist holds, the one
\* left out is slower than a promoted one, and every promoted one was tested
C12_Witness ==
    /\ pc = "done"
    /\ Cardinality(QuickPassing) > SHORTLIST_SIZE
    /\ Len(candidate_nodes) = SHORTLIST_SIZE
    /\ Len(detailed_results) = SHORTLIST_SIZE
    /\ \E k \in QuickPassing :
         /\ quick_results[k].ip \notin PromotedIps
         /\ quick_results[k].latency > candidate_nodes[1].latency

\* the addresses either pattern finds in a text
AddressesIn(text) ==
    {FullFindAll(text, 1)[k].ip : k \in 1..Len(FullFindAll(text, 1))}
      \cup {IpFindAll(text, 1)[k] : k \in 1..Len(IpFindAll(text, 1))}

\* the first index of "#" in a line, 0 if there is none
FindHash(line) ==
    LET hits == {i \in 1..Len(line) : line[i] = "#"}
    IN IF hits = {} THEN 0 ELSE CHOOSE i \in hits : \A j \in hits : i <= j

\* a line without what follows its first "#"
BeforeHash(line) ==
    IF FindHash(line) = 0 THEN line ELSE SubSeq(line, 1, FindHash(line) - 1)

\* a line without its comment, a comment being a line whose first non-blank
\* character is "#" or what follows the first " #"
BeforeSpaceHash(raw) ==
    LET line == strip(raw)
        k == FindSpaceHash(line)
    IN IF line # <<>> /\ Head(line) = "#" THEN <<>>
       ELSE IF k = 0 THEN line
       ELSE SubSeq(line, 1, k - 1)

\* C15 as claimed: every candidate of a blob stands before the first "#" of
\* some line of the blob, whether or not a space precedes that "#".
C15_AnyHashCuts ==
    doubled.done =>
      \A ip \in SeenIps(doubled.once) :
        \E n \in 1..Len(splitlines(tls_text)) :
           ip \in AddressesIn(BeforeHash(splitlines(tls_text)[n]))

\* C15 as amended: every candidate of a blob stands on some line of the blob
\* outside its comment, a comment being a whole line that starts with "#" or
\* what follows the first " #" (a space, then "#") of a line.
C15_SpaceHashCuts ==
    doubled.done =>
      \A ip \in SeenIps(doubled.once) :
        \E n \in 1..Len(splitlines(tls_text)) :
           ip \in AddressesIn(BeforeSpaceHash(splitlines(tls_text)[n]))

\* a line with one address before " #" and another after it gave the first
C15_Witness ==
    /\ doubled.done
    /\ tls_text = IPA \o <<" ", "#">> \o IPB
    /\ SeenIps(doubled.once) = {IPA}

\* where the matches of FULL_PATTERN.findall start, from position i
RECURSIVE FullStarts(_, _)
FullStarts(s, i) ==
    IF i > Len(s) THEN {}
    ELSE LET e == MatchOctets(s, i, 4, TRUE)
         IN IF e = 0 THEN FullStarts(s, i + 1)
            ELSE {i} \cup FullStarts(s, DigitsEnd(s, e + 1))

\* where the matches of IP_PATTERN.findall start, from position i
RECURSIVE BareStarts(_, _)
BareStarts(s, i) ==
    IF i > Len(s) THEN {}
    ELSE LET e == IF WordBoundary(s, i) THEN MatchOctets(s, i, 4, FALSE) ELSE 0
         IN IF e = 0 THEN BareStarts(s, i + 1)
            ELSE {i} \cup BareStarts(s, e)

IpAt(s, i, full) == SubSeq(s, i, MatchOctets(s, i, 4, full) - 1)

PortAt(s, i) ==
    LET e == MatchOctets(s, i, 4, TRUE)
    IN SubSeq(s, e + 1, DigitsEnd(s, e + 1) - 1)

\* the occurrences of an address with a port, and all its occurrences
PortedOccurrences(s, ip) == {i \in FullStarts(s, 1) : IpAt(s, i, TRUE) = ip}

Occurrences(s, ip) ==
    PortedOccurrences(s, ip) \cup {i \in BareStarts(s, 1) : IpAt(s, i, FALSE) = ip}

Earliest(S) == CHOOSE i \in S : \A j \in S : i <= j

\* the port of the earliest occurrence of an address
EarliestPort(s, ip) ==
    IF Earliest(Occurrences(s, ip)) \in PortedOccurrences(s, ip)
    THEN PortAt(s, Earliest(Occurrences(s, ip)))
    ELSE DEFAULT_PORT

\* the port of the earliest occurrence with a port, 443 if there is none
EarliestWrittenPort(s, ip) ==
    IF PortedOccurrences(s, ip) = {} THEN DEFAULT_PORT
    ELSE PortAt(s, Earliest(PortedOccurrences(s, ip)))

\* every address found is returned, and returned once
EachAddressOnce(items, s) ==
    /\ SeenIps(items) = AddressesIn(s)
    /\ \A j, k \in 1..Len(items) : j # k => items[j].ip # items[k].ip

\* C16 as claimed: each address of a blob is returned once, with the port of
\* its earliest occurrence in the text (443 when that occurrence is bare).
C16_FirstOccurrenceWins ==
    doubled.done =>
      /\ EachAddressOnce(doubled.once, CleanText(tls_text))
      /\ \A k \in 1..Len(doubled.once) :
           doubled.once[k].port = EarliestPort(CleanText(tls_text), doubled.once[k].ip)

\* C16 as amended: each address of a blob is returned once, with the port of
\* its earliest occurrence that has a port, wherever its bare occurrences
\* stand, and with 443 when no occurrence of it has a port.
C16_WrittenPortWins ==
    doubled.done =>
      /\ EachAddressOnce(doubled.once, CleanText(tls_text))
      /\ \A k \in 1..Len(doubled.once) :
           doubled.once[k].port
             = EarliestWrittenPort(CleanText(tls_text), doubled.once[k].ip)

\* an address that is bare on the first line and has a port on the second
\* was returned once, with that port
C16_Witness ==
    /\ doubled.done
    /\ tls_text = IPA \o <<NL>> \o IPA \o PORT8
    /\ doubled.once = <<[ip |-> IPA, port |-> <<"8">>]>>

====
